---- MODULE Spec2Model ----
(***************************************************************************)
(* Model of src/src/tournament-creator-simple.ts: a script that, on each   *)
(* run, reads a counter from config/auto-teamfight.state.json, schedules   *)
(* four team battles (Day and Night for today and tomorrow), submits them  *)
(* one after another and writes the counter back.                          *)
(*                                                                         *)
(* Modelling decisions:                                                    *)
(*  - A time value is kept in minutes since the epoch instead of           *)
(*    milliseconds: every time value the script builds has zero seconds    *)
(*    and milliseconds (lines 32 and 161).                                 *)
(*  - The local time zone is a fixed offset from UTC, in minutes.          *)
(*  - A string the script inspects character by character (the token) is a *)
(*    sequence of one-character strings; the others are strings.           *)
(*  - The state file is missing, unparsable, or holds an integer counter.  *)
(*    File-system writes succeed.                                          *)
(*  - Runs do not overlap; another run starts only after the last exited.  *)
(***************************************************************************)
EXTENDS Integers, Sequences, FiniteSets, TLC

VARIABLES
    file,          \* contents of config/auto-teamfight.state.json
    initialFile,   \* history: the file before the first run
    fileAtStart,   \* history: the file when the current run started
    runs,          \* number of runs started so far
    pc,            \* position of the control flow
    caller,        \* who awaits createTeamBattle: "main" or "direct"
    oauthToken,    \* process.env.OAUTH_TOKEN as read at line 118
    config,        \* the TournamentConfig of lines 124-135
    state,         \* state.lastTournamentDayNum, in memory
    startNum,      \* history: state.lastTournamentDayNum as loaded
    nextDayNum,    \* line 148
    now,           \* the time value of `now`, line 151
    tournaments,   \* the descriptors of lines 157-183
    i,             \* loop index of line 192
    successCount,  \* line 188
    failureCount,  \* line 189
    params,        \* argument of the pending createTeamBattle call
    result,        \* value createTeamBattle resolved to
    exitStatus,    \* process exit status
    fatal,         \* the catch block of lines 246-249 ran
    requests,      \* HTTP requests sent during the current run
    log,           \* history: events of the current run, in order
    attempted,     \* history: <<dayNum, type>> handed to createTeamBattle
    reported       \* history: <<dayNum, type>> whose result was ok

vars == <<file, initialFile, fileAtStart, runs, pc, caller, oauthToken,
          config, state, startNum, nextDayNum, now, tournaments, i,
          successCount, failureCount, params, result, exitStatus, fatal,
          requests, log, attempted, reported>>

(***************************************************************************)
(* Bounds                                                                  *)
(***************************************************************************)
MaxRuns == 2

(***************************************************************************)
(* ECMAScript date arithmetic (ECMA-262, Date objects), in minutes         *)
(***************************************************************************)
MinutesPerDay == 1440

DaysInYear(y) ==
    IF y % 4 # 0 THEN 365
    ELSE IF y % 100 # 0 THEN 366
    ELSE IF y % 400 # 0 THEN 365
    ELSE 366

DayFromYear(y) ==
    365 * (y - 1970) + ((y - 1969) \div 4) - ((y - 1901) \div 100)
        + ((y - 1601) \div 400)

InLeapYear(y) == IF DaysInYear(y) = 366 THEN 1 ELSE 0

\* Day within the year on which month m (0-based) starts; m = 12 is the
\* start of the next year.
MonthStart(m, leap) ==
    CASE m = 0  -> 0
      [] m = 1  -> 31
      [] m = 2  -> 59 + leap
      [] m = 3  -> 90 + leap
      [] m = 4  -> 120 + leap
      [] m = 5  -> 151 + leap
      [] m = 6  -> 181 + leap
      [] m = 7  -> 212 + leap
      [] m = 8  -> 243 + leap
      [] m = 9  -> 273 + leap
      [] m = 10 -> 304 + leap
      [] m = 11 -> 334 + leap
      [] m = 12 -> 365 + leap

\* MakeDay(year, month, date): month is 0-based and may overflow, date may
\* lie outside the month.
MakeDay(year, month, date) ==
    LET ym == year + (month \div 12)
        mn == month % 12
    IN  DayFromYear(ym) + MonthStart(mn, InLeapYear(ym)) + date - 1

MakeDate(day, time) == day * MinutesPerDay + time

Day(t) == t \div MinutesPerDay

TimeWithinDay(t) == t % MinutesPerDay

\* The year holding day d: the largest y with DayFromYear(y) <= d.  A year has
\* at most 366 days, so the year is at or just after 1970 + d / 366.
YearFromDay(d) ==
    LET y0 == 1970 + (d \div 366)
    IN  CHOOSE y \in y0..(y0 + 2) : DayFromYear(y) <= d /\ d < DayFromYear(y + 1)

YearFromTime(t) == YearFromDay(Day(t))

DayWithinYear(t) == Day(t) - DayFromYear(YearFromTime(t))

MonthFromTime(t) ==
    LET leap == InLeapYear(YearFromTime(t))
        dwy  == DayWithinYear(t)
    IN  CHOOSE m \in 0..11 : MonthStart(m, leap) <= dwy
                             /\ dwy < MonthStart(m + 1, leap)

DateFromTime(t) ==
    DayWithinYear(t) - MonthStart(MonthFromTime(t), InLeapYear(YearFromTime(t))) + 1

HourFromTime(t) == TimeWithinDay(t) \div 60

MinFromTime(t) == TimeWithinDay(t) % 60

\* Date.UTC(year, month, day, hour, minute, 0, 0)
DateUTC(year, month, day, hour, minute) ==
    MakeDate(MakeDay(year, month, day), hour * 60 + minute)

\* new Date(year, month, day): the fields are local time, tza is the offset
\* of local time from UTC.
NewLocalDate(year, month, day, tza) ==
    MakeDate(MakeDay(year, month, day), 0) - tza

LocalTime(t, tza) == t + tza

\* Decimal digits of n, left-padded with zeros to the given width.
RECURSIVE PadStart(_, _)
PadStart(n, width) ==
    IF width <= 1 THEN ToString(n)
    ELSE IF n < 10 THEN "0" \o PadStart(n, width - 1) \* shorter than width
    ELSE PadStart(n \div 10, width - 1) \o ToString(n % 10)

\* Date.prototype.toISOString for years 0..9999
ToISOString(t) ==
    PadStart(YearFromTime(t), 4) \o "-" \o PadStart(MonthFromTime(t) + 1, 2)
        \o "-" \o PadStart(DateFromTime(t), 2) \o "T"
        \o PadStart(HourFromTime(t), 2) \o ":" \o PadStart(MinFromTime(t), 2)
        \o ":00.000Z"

(***************************************************************************)
(* Strings inspected character by character                                *)
(***************************************************************************)
Whitespace == {" ", "\t", "\n"}

RECURSIVE TrimStart(_)
TrimStart(s) ==
    IF s # <<>> /\ Head(s) \in Whitespace THEN TrimStart(Tail(s)) ELSE s

RECURSIVE TrimEnd(_)
TrimEnd(s) ==
    IF s # <<>> /\ s[Len(s)] \in Whitespace
    THEN TrimEnd(SubSeq(s, 1, Len(s) - 1))
    ELSE s

\* String.prototype.trim
Trim(s) == TrimEnd(TrimStart(s))

\* String.prototype.includes
Includes(s, sub) ==
    \E k \in 1..(Len(s) - Len(sub) + 1) : SubSeq(s, k, k + Len(sub) - 1) = sub

Stars == <<"*", "*", "*">>

YourToken == <<"Y", "O", "U", "R", "_", "T", "O", "K", "E", "N">>

\* An environment variable or optional string: unset (undefined) or a value.
Undefined(empty) == [set |-> FALSE, value |-> empty]

Str(v) == [set |-> TRUE, value |-> v]

\* !x for an optional string
Falsy(x) == ~x.set \/ Len(x.value) = 0

(***************************************************************************)
(* The functions of the script                                             *)
(***************************************************************************)
DefaultDayNum == 24

\* readJSON<TournamentState>(stateFilePath) inside the try/catch of main:
\* the counter of the file, or the default when readJSON throws.
LoadStateMutant(f) == DefaultDayNum

LoadState(f) ==
    IF f.kind = "json" THEN f.num ELSE DefaultDayNum

createTournamentDateMutant(year, month, day, hour, minute) ==
    ToISOString(DateUTC(year, month, day, hour, minute))

createTournamentDate(year, month, day, hour, minute) ==
    ToISOString(DateUTC(year, month - 1, day, hour, minute))

buildTournamentNameMutant(dayNum, type) ==
    "LMAO " \o type \o " " \o ToString(dayNum) \o " Team Battle"

buildTournamentName(dayNum, type) ==
    "LMAO " \o type \o " '" \o ToString(dayNum) \o "' Team Battle"

buildDescription(dayNum, type) ==
    "Welcome to the LMAO " \o type \o " '" \o ToString(dayNum)
        \o "' Team Battle! Have fun and fair play!"

\* The token check of createTeamBattle.
TokenInvalidMutant(token) ==
    \/ Falsy(token)
    \/ Trim(token.value) = <<>>
    \/ Includes(token.value, YourToken)

TokenInvalid(token) ==
    \/ Falsy(token)
    \/ Trim(token.value) = <<>>
    \/ Includes(token.value, Stars)
    \/ Includes(token.value, YourToken)

InvalidTokenError ==
    "Invalid or missing OAuth token. Please set a valid OAUTH_TOKEN environment variable."

InvitedTeams(teams, hostTeamId) ==
    SelectSeq(teams, LAMBDA t : t # "" /\ t # hostTeamId)

\* The request fetch sends for the call with parameters p.
RequestOf(p) ==
    [url           |-> p.server \o "/api/team/" \o p.hostTeamId \o "/arena",
     method        |-> "POST",
     authorization |-> <<"B", "e", "a", "r", "e", "r", " ">> \o p.token.value,
     name          |-> p.name,
     startDate     |-> p.startDateISO,
     hostTeamId    |-> p.hostTeamId,
     teams         |-> InvitedTeams(p.teams, p.hostTeamId)]

PendingUrlMutant(server, hostTeamId) ==
    server \o "/api/team/" \o hostTeamId \o "/arena"

PendingUrl(server, hostTeamId) ==
    server \o "/team/" \o hostTeamId \o "/arena/pending"

InvalidTokenResult == [ok |-> FALSE, url |-> "", error |-> InvalidTokenError]

DryRunResult(p) ==
    [ok |-> TRUE, url |-> PendingUrl(p.server, p.hostTeamId), error |-> ""]

\* What the remote end can answer: fetch rejects, or a response arrives with
\* a status, a body that is or is not JSON, an id and a Location header
\* ("" when absent).
Responses ==
    { [rejects |-> TRUE,  ok |-> FALSE, status |-> 0,   text |-> "FetchError: socket hang up",
       json |-> FALSE, id |-> "", location |-> ""],
      [rejects |-> FALSE, ok |-> FALSE, status |-> 429, text |-> "Too Many Requests",
       json |-> FALSE, id |-> "", location |-> ""],
      [rejects |-> FALSE, ok |-> TRUE,  status |-> 200, text |-> "",
       json |-> TRUE,  id |-> "Qv7hKk2x", location |-> ""],
      [rejects |-> FALSE, ok |-> TRUE,  status |-> 200, text |-> "",
       json |-> TRUE,  id |-> "", location |-> ""],
      [rejects |-> FALSE, ok |-> TRUE,  status |-> 200, text |-> "FetchError: invalid json response body",
       json |-> FALSE, id |-> "", location |-> ""] }

\* What createTeamBattle returns once fetch has settled with r.
ResultOfResponse(p, r) ==
    IF r.rejects THEN [ok |-> FALSE, url |-> "", error |-> r.text]
    ELSE IF ~r.ok
    THEN [ok |-> FALSE, url |-> "", error |-> ToString(r.status) \o ": " \o r.text]
    ELSE IF ~r.json THEN [ok |-> FALSE, url |-> "", error |-> r.text]
    ELSE [ok    |-> TRUE,
          url   |-> IF r.id # "" THEN p.server \o "/tournament/" \o r.id
                    ELSE IF r.location # "" THEN r.location
                    ELSE "unknown",
          error |-> ""]

\* config.dryRun, from process.env.DRY_RUN
DryRunFlag(env) == env.set /\ (env.value = "1" \/ env.value = "true")

Config(dryRunEnv) ==
    [server        |-> "https://lichess.org",
     hostTeamId    |-> "lmao-teamfights",
     timezone      |-> "UTC",
     minutes       |-> 720,
     clockTime     |-> 3,
     clockIncrement|-> 0,
     rated         |-> TRUE,
     variant       |-> "standard",
     teams         |-> <<"lmao-teamfights", "darkonteams", "rare", "tekio">>,
     dryRun        |-> DryRunFlag(dryRunEnv)]

NextDayNumMutant(lastTournamentDayNum) == lastTournamentDayNum + 2

NextDayNum(lastTournamentDayNum) == lastTournamentDayNum + 1

\* The two descriptors pushed by one iteration of the loop of line 159.
DescriptorsOfDay(next, t, tza, dayOffset) ==
    LET currentYear      == YearFromTime(t)
        currentMonth     == MonthFromTime(t) + 1
        currentDay       == DateFromTime(t)
        tournamentDayNum == next + dayOffset
        targetDate       == NewLocalDate(currentYear, currentMonth - 1,
                                         currentDay + dayOffset, tza)
        targetYear       == YearFromTime(LocalTime(targetDate, tza))
        targetMonth      == MonthFromTime(LocalTime(targetDate, tza)) + 1
        targetDay        == DateFromTime(LocalTime(targetDate, tza))
    IN  << [name         |-> buildTournamentName(tournamentDayNum, "Day"),
            description  |-> buildDescription(tournamentDayNum, "Day"),
            startDateISO |-> createTournamentDate(targetYear, targetMonth, targetDay, 6, 58),
            dayNum       |-> tournamentDayNum,
            type         |-> "Day"],
           [name         |-> buildTournamentName(tournamentDayNum, "Night"),
            description  |-> buildDescription(tournamentDayNum, "Night"),
            startDateISO |-> createTournamentDate(targetYear, targetMonth, targetDay, 18, 58),
            dayNum       |-> tournamentDayNum,
            type         |-> "Night"] >>

Tournaments(next, t, tza) ==
    DescriptorsOfDay(next, t, tza, 0) \o DescriptorsOfDay(next, t, tza, 1)

\* The argument main passes to createTeamBattle for descriptor d.
ParamsOf(cfg, token, d) ==
    [server       |-> cfg.server,
     token        |-> token,
     name         |-> d.name,
     description  |-> d.description,
     startDateISO |-> d.startDateISO,
     hostTeamId   |-> cfg.hostTeamId,
     teams        |-> cfg.teams,
     dryRun       |-> cfg.dryRun]

NeedsDelayMutant(idx) == idx > 1

NeedsDelay(idx) == idx > 0

RECURSIVE MaxOf(_)
MaxOf(S) ==
    LET x == CHOOSE y \in S : TRUE
    IN  IF S = {x} THEN x
        ELSE LET m == MaxOf(S \ {x}) IN IF x > m THEN x ELSE m

RECURSIVE MinOf(_)
MinOf(S) ==
    LET x == CHOOSE y \in S : TRUE
    IN  IF S = {x} THEN x
        ELSE LET m == MinOf(S \ {x}) IN IF x < m THEN x ELSE m

MaxDayNumMutant(ts) == MinOf({ts[k].dayNum : k \in 1..Len(ts)})

\* Math.max(...tournaments.map(t => t.dayNum))
MaxDayNum(ts) == MaxOf({ts[k].dayNum : k \in 1..Len(ts)})

ShouldWriteStateMutant(successes) == successes >= 0

ShouldWriteState(successes) == successes > 0

ExitCodeMutant(failures) == IF failures > 1 THEN 1 ELSE 0

\* process.exit(1) of line 243, or the normal end of the process.
ExitCode(failures) == IF failures > 0 THEN 1 ELSE 0

(***************************************************************************)
(* Inputs                                                                  *)
(***************************************************************************)
ValidToken == Str(<<"l", "i", "p", "_", "a", "b", "c">>)

PlaceholderToken == Str(YourToken)

Tokens ==
    { Undefined(<<>>),
      Str(<<>>),
      Str(<<" ", "\t">>),
      ValidToken,
      PlaceholderToken,
      Str(<<"x">> \o YourToken \o <<"y">>),
      Str(<<"l", "i", "p", "_">> \o Stars),
      Str(<<"*", "*">>),
      Str(<<" ", "Y", "O", "U", "R", "_", "T", "O", "K", "E", " ">>) }

\* The tokens of the runs that follow one another.
RunTokens == { Undefined(<<>>), ValidToken, PlaceholderToken }

DryRunEnvs == { Undefined(""), Str("1"), Str("true"), Str("0"), Str("TRUE") }

RunDryRunEnvs == { Undefined(""), Str("1") }

\* Moments at which a run starts: <<year, month, day, hour, minute>>, UTC.
Instants ==
    { <<2024, 2, 28, 5, 0>>,  <<2024, 2, 29, 5, 0>>,   <<2023, 2, 28, 5, 0>>,
      <<2024, 12, 31, 23, 59>>, <<2024, 1, 31, 0, 0>>, <<2024, 4, 30, 5, 0>>,
      <<2024, 6, 15, 12, 30>>, <<2100, 2, 28, 5, 0>>,  <<2000, 2, 29, 5, 0>>,
      <<2025, 12, 30, 5, 0>> }

RunInstants == { <<2024, 6, 15, 12, 30>>, <<2024, 12, 31, 23, 59>> }

TimeOf(inst) == DateUTC(inst[1], inst[2] - 1, inst[3], inst[4], inst[5])

\* Offsets of local time from UTC, in minutes.
Zones == { -600, 0, 330, 840 }

Missing == [kind |-> "missing", num |-> 0]

Corrupt == [kind |-> "corrupt", num |-> 0]

Json(n) == [kind |-> "json", num |-> n]

InitialFiles == { Missing, Corrupt, Json(24), Json(30) }

\* Parameters of a call of createTeamBattle made on its own.
DirectParams ==
    { [server       |-> srv,
       token        |-> tok,
       name         |-> buildTournamentName(25, "Day"),
       description  |-> buildDescription(25, "Day"),
       startDateISO |-> createTournamentDate(2024, 2, 29, 6, 58),
       hostTeamId   |-> host,
       teams        |-> <<"lmao-teamfights", "darkonteams", "", "rare">>,
       dryRun       |-> dry] :
      srv \in {"https://lichess.org", "http://localhost:9663"},
      tok \in Tokens,
      host \in {"lmao-teamfights", "rare"},
      dry \in BOOLEAN }

NoParams ==
    [server |-> "", token |-> Undefined(<<>>), name |-> "", description |-> "",
     startDateISO |-> "", hostTeamId |-> "", teams |-> <<>>, dryRun |-> FALSE]

NoResult == [ok |-> FALSE, url |-> "", error |-> ""]

Event(ev, idx) == [ev |-> ev, idx |-> idx]

(***************************************************************************)
(* Initial states                                                          *)
(***************************************************************************)
\* A process that has not run main yet.
Fresh ==
    /\ caller = "main"
    /\ oauthToken = Undefined(<<>>)
    /\ config = Config(Undefined(""))
    /\ state = 0
    /\ startNum = 0
    /\ nextDayNum = 0
    /\ now = 0
    /\ tournaments = <<>>
    /\ i = 0
    /\ successCount = 0
    /\ failureCount = 0
    /\ params = NoParams
    /\ result = NoResult
    /\ exitStatus = 0
    /\ fatal = FALSE
    /\ requests = <<>>
    /\ log = <<>>
    /\ attempted = {}
    /\ reported = {}

Init ==
    /\ file \in InitialFiles
    /\ initialFile = file
    /\ fileAtStart = file
    /\ runs = 0
    /\ pc = "idle"
    /\ Fresh

\* createTeamBattle about to be called on its own.
InitCall ==
    /\ file = Missing
    /\ initialFile = file
    /\ fileAtStart = file
    /\ runs = 0
    /\ oauthToken = Undefined(<<>>)
    /\ config = Config(Undefined(""))
    /\ state = 0 /\ startNum = 0 /\ nextDayNum = 0 /\ now = 0
    /\ tournaments = <<>>
    /\ i = 0 /\ successCount = 0 /\ failureCount = 0
    /\ result = NoResult
    /\ exitStatus = 0 /\ fatal = FALSE
    /\ requests = <<>> /\ log = <<>>
    /\ attempted = {} /\ reported = {}
    /\ caller = "direct"
    /\ params \in DirectParams
    /\ pc = "calling"

InitInputs == Init \/ InitCall

(***************************************************************************)
(* main, lines 115-250                                                     *)
(***************************************************************************)
\* Lines 116-189: a new process reads its environment, loads the state and
\* builds the four descriptors; without a token it throws and the catch
\* block exits with status 1.
Main(tokens, dryRunEnvs, instants) ==
    /\ pc \in {"idle", "done"}
    /\ \E tok \in tokens, dry \in dryRunEnvs, inst \in instants, tza \in Zones :
         LET loaded == LoadState(file)
             next   == NextDayNum(loaded)
         IN  /\ runs' = runs + 1
             /\ caller' = "main"
             /\ oauthToken' = tok
             /\ fileAtStart' = file
             /\ i' = 0
             /\ successCount' = 0
             /\ failureCount' = 0
             /\ params' = NoParams
             /\ result' = NoResult
             /\ requests' = <<>>
             /\ IF Falsy(tok)
                THEN /\ pc' = "done"
                     /\ fatal' = TRUE
                     /\ exitStatus' = 1
                     /\ log' = <<Event("exit", 1)>>
                     /\ config' = Config(Undefined(""))
                     /\ state' = 0
                     /\ startNum' = 0
                     /\ nextDayNum' = 0
                     /\ now' = 0
                     /\ tournaments' = <<>>
                ELSE /\ pc' = "loop"
                     /\ fatal' = FALSE
                     /\ exitStatus' = 0
                     /\ log' = <<>>
                     /\ config' = Config(dry)
                     /\ state' = loaded
                     /\ startNum' = loaded
                     /\ nextDayNum' = next
                     /\ now' = TimeOf(inst)
                     /\ tournaments' = Tournaments(next, TimeOf(inst), tza)
    /\ UNCHANGED <<file, initialFile, attempted, reported>>

\* The call of line 204 with descriptor i.
Submit ==
    LET d == tournaments[i + 1]
    IN  /\ params' = ParamsOf(config, oauthToken, d)
        /\ attempted' = attempted \cup {<<d.dayNum, d.type>>}
        /\ log' = Append(log, Event("submit", i))
        /\ pc' = "calling"

\* Lines 192-203: the head of an iteration; from the second iteration on the
\* 10 second timer is set first.
LoopHead ==
    /\ pc = "loop"
    /\ i < Len(tournaments)
    /\ IF NeedsDelay(i)
       THEN /\ pc' = "waiting"
            /\ UNCHANGED <<params, attempted, log>>
       ELSE Submit
    /\ UNCHANGED <<file, initialFile, fileAtStart, runs, caller, oauthToken,
                   config, state, startNum, nextDayNum, now, tournaments, i,
                   successCount, failureCount, result, exitStatus, fatal,
                   requests, reported>>

\* Line 201: the timer fires after 10 seconds.
TimerFires ==
    /\ pc = "waiting"
    /\ LET d == tournaments[i + 1]
       IN  /\ params' = ParamsOf(config, oauthToken, d)
           /\ attempted' = attempted \cup {<<d.dayNum, d.type>>}
           /\ log' = log \o <<Event("delay", i), Event("submit", i)>>
           /\ pc' = "calling"
    /\ UNCHANGED <<file, initialFile, fileAtStart, runs, caller, oauthToken,
                   config, state, startNum, nextDayNum, now, tournaments, i,
                   successCount, failureCount, result, exitStatus, fatal,
                   requests, reported>>

\* Where createTeamBattle resolves to.
ReturnTo == IF caller = "main" THEN "tally" ELSE "returned"

\* createTeamBattle, lines 60-96: up to its return or to the fetch.
CallCreateTeamBattle ==
    /\ pc = "calling"
    /\ IF TokenInvalid(params.token)
       THEN /\ result' = InvalidTokenResult
            /\ pc' = ReturnTo
            /\ UNCHANGED requests
       ELSE IF params.dryRun
       THEN /\ result' = DryRunResult(params)
            /\ pc' = ReturnTo
            /\ UNCHANGED requests
       ELSE /\ requests' = Append(requests, RequestOf(params))
            /\ pc' = "fetching"
            /\ UNCHANGED result
    /\ UNCHANGED <<file, initialFile, fileAtStart, runs, caller, oauthToken,
                   config, state, startNum, nextDayNum, now, tournaments, i,
                   successCount, failureCount, params, exitStatus, fatal,
                   log, attempted, reported>>

\* createTeamBattle, lines 97-112: fetch settles.
FetchResponds ==
    /\ pc = "fetching"
    /\ \E r \in Responses : result' = ResultOfResponse(params, r)
    /\ pc' = ReturnTo
    /\ UNCHANGED <<file, initialFile, fileAtStart, runs, caller, oauthToken,
                   config, state, startNum, nextDayNum, now, tournaments, i,
                   successCount, failureCount, params, exitStatus, fatal,
                   requests, log, attempted, reported>>

\* Lines 220-227 and the i++ of line 192.
Tally ==
    /\ pc = "tally"
    /\ IF result.ok
       THEN /\ successCount' = successCount + 1
            /\ reported' = reported \cup
                   {<<tournaments[i + 1].dayNum, tournaments[i + 1].type>>}
            /\ UNCHANGED failureCount
       ELSE /\ failureCount' = failureCount + 1
            /\ UNCHANGED <<successCount, reported>>
    /\ i' = i + 1
    /\ pc' = "loop"
    /\ UNCHANGED <<file, initialFile, fileAtStart, runs, caller, oauthToken,
                   config, state, startNum, nextDayNum, now, tournaments,
                   params, result, exitStatus, fatal, requests, log, attempted>>

\* Lines 229-244: after the loop, write the state and exit.
Finalize ==
    /\ pc = "loop"
    /\ ~(i < Len(tournaments))
    /\ IF ShouldWriteState(successCount)
       THEN /\ state' = MaxDayNum(tournaments)
            /\ file' = Json(MaxDayNum(tournaments))
            /\ log' = log \o <<Event("write", i), Event("exit", ExitCode(failureCount))>>
       ELSE /\ UNCHANGED <<state, file>>
            /\ log' = Append(log, Event("exit", ExitCode(failureCount)))
    /\ exitStatus' = ExitCode(failureCount)
    /\ pc' = "done"
    /\ UNCHANGED <<initialFile, fileAtStart, runs, caller, oauthToken, config,
                   startNum, nextDayNum, now, tournaments, i, successCount,
                   failureCount, params, result, fatal, requests, attempted,
                   reported>>

Steps ==
    \/ LoopHead
    \/ TimerFires
    \/ CallCreateTeamBattle
    \/ FetchResponds
    \/ Tally
    \/ Finalize

\* A run of the script, after the previous one has exited.
StartRun ==
    /\ runs < MaxRuns
    /\ Main(RunTokens, RunDryRunEnvs, RunInstants)

\* The only run of the script, with any input.
StartOnlyRun ==
    /\ runs = 0
    /\ Main(Tokens, DryRunEnvs, Instants)

Next == StartRun \/ Steps

NextInputs == StartOnlyRun \/ Steps

\* Runs that follow one another.
Spec == Init /\ [][Next]_vars

\* One run, or one call of createTeamBattle, with any input.
SpecInputs == InitInputs /\ [][NextInputs]_vars

(***************************************************************************)
(* Properties                                                              *)
(***************************************************************************)
Slots == {"Day", "Night"}

\* A run of main that got past the token check.
Running == caller = "main" /\ runs > 0 /\ ~fatal

Finished == pc = "done" /\ Running

\* C1: when a run in which at least one of the 4 submissions succeeded has
\* finished, the state file holds S + 2, S being the lastTournamentDayNum the
\* run started from, whichever of the 4 succeeded.
C1_CounterIsBatchMaximum ==
    (Finished /\ successCount > 0) => file = Json(startNum + 2)

C1_Witness ==
    /\ Finished
    /\ successCount = 1
    /\ failureCount = 3
    /\ <<startNum + 1, "Night">> \in reported
    /\ fileAtStart = Missing
    /\ file = Json(26)

\* C2: when a run in which all 4 submissions failed has finished, the state
\* file is as it was when the run started and the run has not written it; a
\* missing or unreadable file is not created.
C2_NoSuccessNoWrite ==
    (Finished /\ failureCount = 4) =>
        /\ file = fileAtStart
        /\ \A k \in 1..Len(log) : log[k].ev # "write"

C2_Witness ==
    /\ Finished
    /\ failureCount = 4
    /\ fileAtStart = Missing
    /\ file = Missing
    /\ Len(requests) = 4

\* C3 as stated: the exit status of a run is non-zero if and only if at least
\* one of the 4 submissions failed.
C3_Original ==
    (pc = "done" /\ caller = "main") => (exitStatus # 0 <=> failureCount > 0)

\* C3, amended: the exit status of a run is non-zero if and only if at least
\* one submission failed or the run was aborted by the catch block of main,
\* as it is without a token, before any submission.
C3_ExitStatus ==
    (pc = "done" /\ caller = "main") =>
        /\ exitStatus # 0 <=> (failureCount > 0 \/ fatal)
        /\ fatal <=> (~oauthToken.set \/ oauthToken.value = <<>>)
        /\ fatal => (failureCount = 0 /\ successCount = 0 /\ log = <<Event("exit", 1)>>)

C3_Witness ==
    /\ pc = "done"
    /\ runs = 2
    /\ fatal
    /\ exitStatus = 1
    /\ failureCount = 0
    /\ file = Json(32)

\* The sequence number of the first tournament of the first run.
FirstNum == IF initialFile.kind = "json" THEN initialFile.num + 1 ELSE 25

\* The counter the next run would start from.
Counter == IF file.kind = "json" THEN file.num ELSE 24

\* No tournament that a run reported as created is handed to createTeamBattle
\* again.  Within a run the 4 descriptors differ, so a descriptor that is
\* already in reported when it is submitted was reported by an earlier run.
NoResubmission ==
    (pc = "calling" /\ caller = "main") =>
        <<tournaments[i + 1].dayNum, tournaments[i + 1].type>> \notin reported

\* C4 as stated: over runs that follow one another, no tournament created
\* successfully is submitted again, and every (sequence number, slot) from the
\* first number up to the counter has been created successfully.
C4_Original ==
    /\ NoResubmission
    /\ (pc = "done" /\ caller = "main") =>
           \A n \in FirstNum..Counter, s \in Slots : <<n, s>> \in reported

\* C4, amended: over runs that follow one another, no tournament reported as
\* created is submitted again, and every (sequence number, slot) from the
\* first number up to the counter has been submitted at least once, though
\* not necessarily with success.
C4_NoResubmissionNoGap ==
    /\ NoResubmission
    /\ (pc = "done" /\ caller = "main") =>
           \A n \in FirstNum..Counter, s \in Slots : <<n, s>> \in attempted

C4_Witness ==
    /\ Finished
    /\ runs = 2
    /\ initialFile = Json(24)
    /\ file = Json(28)
    /\ reported = {<<25, "Day">>, <<27, "Night">>}
    /\ Cardinality(attempted) = 8

\* C5: no step decrements the counter of the state file, and a file that
\* holds a counter keeps holding one.
C5_NeverDecremented ==
    [][file.kind = "json" => (file'.kind = "json" /\ file'.num >= file.num)]_vars

C5_Witness ==
    /\ Finished
    /\ runs = 2
    /\ initialFile = Corrupt
    /\ fileAtStart = Json(26)
    /\ file = Json(28)

ExpectedName(n, s) == "LMAO " \o s \o " '" \o ToString(n) \o "' Team Battle"

\* C6: the batch of a run that starts from lastTournamentDayNum = S is the 4
\* descriptors (S+1, Day), (S+1, Night), (S+2, Day), (S+2, Night), in this
\* order, named "LMAO {Day|Night} '{N}' Team Battle".
C6_BatchOfFour ==
    (Running /\ pc # "idle") =>
        /\ Len(tournaments) = 4
        /\ <<tournaments[1].dayNum, tournaments[2].dayNum,
             tournaments[3].dayNum, tournaments[4].dayNum>>
               = <<startNum + 1, startNum + 1, startNum + 2, startNum + 2>>
        /\ <<tournaments[1].type, tournaments[2].type,
             tournaments[3].type, tournaments[4].type>>
               = <<"Day", "Night", "Day", "Night">>
        /\ \A k \in 1..4 :
               tournaments[k].name
                   = ExpectedName(tournaments[k].dayNum, tournaments[k].type)
        /\ startNum = 24 =>
               <<tournaments[1].name, tournaments[2].name,
                 tournaments[3].name, tournaments[4].name>>
                   = <<"LMAO Day '25' Team Battle", "LMAO Night '25' Team Battle",
                       "LMAO Day '26' Team Battle", "LMAO Night '26' Team Battle">>

C6_Witness ==
    /\ Running
    /\ pc = "loop"
    /\ fileAtStart = Json(30)
    /\ tournaments[3].name = "LMAO Day '32' Team Battle"
    /\ tournaments[3].dayNum = 32

\* Gregorian calendar, stated on its own.
LeapYear(y) == y % 4 = 0 /\ (y % 100 # 0 \/ y % 400 = 0)

DaysInMonth(y, m) ==
    IF m = 2 THEN (IF LeapYear(y) THEN 29 ELSE 28)
    ELSE IF m \in {4, 6, 9, 11} THEN 30
    ELSE 31

DayAfter(date) ==
    IF date[3] < DaysInMonth(date[1], date[2]) THEN <<date[1], date[2], date[3] + 1>>
    ELSE IF date[2] < 12 THEN <<date[1], date[2] + 1, 1>>
    ELSE <<date[1] + 1, 1, 1>>

TwoDigits(n) == IF n < 10 THEN "0" \o ToString(n) ELSE ToString(n)

StartAt(date, clock) ==
    ToString(date[1]) \o "-" \o TwoDigits(date[2]) \o "-" \o TwoDigits(date[3])
        \o "T" \o clock \o ":00.000Z"

\* C7: whatever the UTC date of the run and the local time zone, the first
\* two descriptors start at 06:58 and 18:58 UTC of today's UTC date and the
\* last two at the same times of the next calendar day, across the ends of
\* months, of February in leap years and of the year.
C7_StartTimes ==
    (Running /\ pc # "idle") =>
        \A inst \in Instants :
            now = TimeOf(inst) =>
                LET today == <<inst[1], inst[2], inst[3]>>
                IN  <<tournaments[1].startDateISO, tournaments[2].startDateISO,
                      tournaments[3].startDateISO, tournaments[4].startDateISO>>
                        = <<StartAt(today, "06:58"), StartAt(today, "18:58"),
                            StartAt(DayAfter(today), "06:58"),
                            StartAt(DayAfter(today), "18:58")>>

C7_Witness ==
    /\ Running
    /\ pc = "loop"
    /\ now = TimeOf(<<2024, 2, 29, 5, 0>>)
    /\ tournaments[2].startDateISO = "2024-02-29T18:58:00.000Z"
    /\ tournaments[3].startDateISO = "2024-03-01T06:58:00.000Z"

\* The tokens C8 is about: empty, or holding a placeholder.
Placeholder(tok) ==
    /\ tok.set
    /\ \/ \E k \in 1..(Len(tok.value) - 2) :
              SubSeq(tok.value, k, k + 2) = <<"*", "*", "*">>
       \/ \E k \in 1..(Len(tok.value) - 9) :
              SubSeq(tok.value, k, k + 9)
                  = <<"Y", "O", "U", "R", "_", "T", "O", "K", "E", "N">>

Empty(tok) == tok.set /\ tok.value = <<>>

Returned == pc \in {"tally", "returned"}

\* Every call with an empty or placeholder token fails at once, without a
\* request, in dry-run mode or not.
BadTokenFailsFast ==
    (Empty(params.token) \/ Placeholder(params.token)) =>
        /\ requests = <<>>
        /\ pc # "fetching"
        /\ Returned => result = [ok |-> FALSE, url |-> "", error |-> InvalidTokenError]

\* C8 as stated: a call with an empty or placeholder token fails at once
\* without a request, and a run with such a token records 4 failures, sends
\* no request, does not write the state file and exits non-zero.
C8_Original ==
    /\ BadTokenFailsFast
    /\ (pc = "done" /\ caller = "main"
            /\ (Empty(oauthToken) \/ Placeholder(oauthToken))) =>
           /\ failureCount = 4
           /\ requests = <<>>
           /\ file = fileAtStart
           /\ exitStatus # 0

\* C8, amended: a call with an empty or placeholder token fails at once
\* without a request; a run with a placeholder token records 4 failures, and
\* a run with the empty token is aborted before any submission and records
\* none; both send no request, do not write the state file and exit non-zero.
C8_BadToken ==
    /\ BadTokenFailsFast
    /\ (pc = "done" /\ caller = "main"
            /\ (Empty(oauthToken) \/ Placeholder(oauthToken))) =>
           /\ IF Empty(oauthToken)
              THEN failureCount = 0 /\ attempted = {} /\ fatal
              ELSE failureCount = 4 /\ Cardinality(attempted) = 4
           /\ successCount = 0
           /\ requests = <<>>
           /\ file = fileAtStart
           /\ exitStatus # 0

C8_Witness ==
    /\ pc = "done"
    /\ caller = "main"
    /\ oauthToken = Str(<<"l", "i", "p", "_", "*", "*", "*">>)
    /\ ~config.dryRun
    /\ failureCount = 4
    /\ exitStatus = 1
    /\ requests = <<>>

\* C9 as stated: in dry-run mode every call of createTeamBattle sends no
\* request and returns success with the URL
\* {server}/team/{hostTeamId}/arena/pending.
C9_Original ==
    params.dryRun =>
        /\ requests = <<>>
        /\ Returned =>
               result = [ok    |-> TRUE,
                         url   |-> params.server \o "/team/" \o params.hostTeamId
                                       \o "/arena/pending",
                         error |-> ""]

\* A token that is unset, or blank once trimmed.
Blank(tok) ==
    ~tok.set \/ \A k \in 1..Len(tok.value) : tok.value[k] \in {" ", "\t", "\n"}

\* C9, amended: in dry-run mode every call of createTeamBattle sends no
\* request; it returns success with the URL
\* {server}/team/{hostTeamId}/arena/pending when the token is neither blank
\* nor a placeholder, and the invalid-token failure otherwise.  A dry run of
\* the script sends no request.
C9_DryRun ==
    /\ params.dryRun =>
        /\ requests = <<>>
        /\ Returned =>
               result = IF Blank(params.token) \/ Placeholder(params.token)
                        THEN [ok |-> FALSE, url |-> "", error |-> InvalidTokenError]
                        ELSE [ok    |-> TRUE,
                              url   |-> params.server \o "/team/" \o params.hostTeamId
                                            \o "/arena/pending",
                              error |-> ""]
    /\ (Running /\ config.dryRun) => requests = <<>>

C9_Witness ==
    /\ Running
    /\ pc = "tally"
    /\ i = 3
    /\ config.dryRun
    /\ oauthToken = ValidToken
    /\ result = [ok    |-> TRUE,
                 url   |-> "https://lichess.org/team/lmao-teamfights/arena/pending",
                 error |-> ""]
    /\ successCount = 3
    /\ requests = <<>>

IsPrefix(a, b) == Len(a) <= Len(b) /\ SubSeq(b, 1, Len(a)) = a

FourAttempts ==
    << Event("submit", 0),
       Event("delay", 1), Event("submit", 1),
       Event("delay", 2), Event("submit", 2),
       Event("delay", 3), Event("submit", 3) >>

\* C10: a run that got past the token check submits the 4 descriptors one
\* after another in order whatever the results, waits before the 2nd, 3rd and
\* 4th submission and not before the 1st, and writes the state and exits only
\* once the 4th has returned, when successCount + failureCount = 4.
C10_FourInOrder ==
    Running =>
        /\ successCount + failureCount = i
        /\ pc # "done" =>
               /\ IsPrefix(log, FourAttempts)
               /\ file = fileAtStart
               /\ exitStatus = 0
        /\ pc \in {"calling", "fetching", "tally"} =>
               /\ log[Len(log)] = Event("submit", i)
               /\ params.name = tournaments[i + 1].name
        /\ pc = "done" =>
               /\ successCount + failureCount = 4
               /\ \/ log = FourAttempts \o <<Event("exit", exitStatus)>>
                  \/ log = FourAttempts \o <<Event("write", 4), Event("exit", exitStatus)>>

C10_Witness ==
    /\ Finished
    /\ successCount = 2
    /\ failureCount = 2
    /\ <<startNum + 1, "Day">> \notin reported
    /\ <<startNum + 2, "Night">> \in reported
    /\ log = FourAttempts \o <<Event("write", 4), Event("exit", 1)>>

====
